---- MODULE Spec2Model ----
(***************************************************************************)
(* Model of src/src/contexts/InventoryContext.tsx: the inventory ledger    *)
(* kept by InventoryProvider (React state), its validated append           *)
(* (addTransaction), the stock queries and the three costing methods of    *)
(* calculateInventoryCost (PEPS = FIFO, UEPS = LIFO, weighted average).    *)
(*                                                                         *)
(* Numbers: quantities and unit costs are integers; quotients are kept as  *)
(* exact fractions [num, den] (IEEE-754 rounding is outside the model).    *)
(* A transaction is the record [id, productId, type, quantity, unitCost,   *)
(* date]; the free-text field notes plays no part in any operation and is  *)
(* left out.                                                               *)
(***************************************************************************)
EXTENDS Integers, Sequences, FiniteSets, TLC

(***************************************************************************)
(* Bounds of the model.                                                    *)
(***************************************************************************)
MaxQty == 2
MaxCost == 2
MaxCalls == 4
MaxLen == 3

\* products that transactions refer to, and every product of the catalog
Products == {"p1", "p2"}
ProductIds == {"p1", "p2", "p3"}
Types == {"entry", "exit"}
Methods == {"PEPS", "UEPS", "weighted"}

\* Date strings handed to new Date(...): three ISO dates and one string that
\* does not parse.
ValidDates == {"2024-01-01", "2024-01-02", "2024-01-03"}
InvalidDate == "n/a"
DateStrings == ValidDates \cup {InvalidDate}

VARIABLES
    transactions,       \* the array `transactions` of the current render: what
                        \* every handler and query of that render closes over
    transactionsState,  \* the value React holds for the useState cell: the last
                        \* array handed to setTransactions (rendered next)
    products,           \* the product catalog of the current render
    productsState,      \* the value React holds for the products cell: the last
                        \* array handed to setProducts
    nextId,             \* uuidv4(): the next fresh identifier
    result              \* what the last call returned or threw

vars == <<transactions, transactionsState, products, productsState, nextId, result>>

(***************************************************************************)
(* Dates.  new Date(s) is a time value or NaN; the time of an ISO date-only*)
(* string is UTC midnight, counted here in days since 1970-01-01.          *)
(***************************************************************************)
NewDate(s) ==
    CASE s = "2024-01-01" -> [nan |-> FALSE, time |-> 19723]
      [] s = "2024-01-02" -> [nan |-> FALSE, time |-> 19724]
      [] s = "2024-01-03" -> [nan |-> FALSE, time |-> 19725]
      [] OTHER            -> [nan |-> TRUE,  time |-> 0]

\* a >= b and a <= b on Date objects: any comparison with NaN is false
DateGE(a, b) == ~a.nan /\ ~b.nan /\ a.time >= b.time
DateLE(a, b) == ~a.nan /\ ~b.nan /\ a.time <= b.time

\* new Date(x).getTime() - new Date(y).getTime(), as the sort reads it: a NaN
\* comparator result counts as 0
CompareAsc(a, b) ==
    LET x == NewDate(a.date)
        y == NewDate(b.date)
    IN  IF x.nan \/ y.nan THEN 0 ELSE x.time - y.time

CompareDesc(a, b) ==
    LET x == NewDate(a.date)
        y == NewDate(b.date)
    IN  IF x.nan \/ y.nan THEN 0 ELSE y.time - x.time

(***************************************************************************)
(* The catalog.  initialProducts holds some forty products in ten          *)
(* categories; three of them stand for the rest.                           *)
(***************************************************************************)
initialProducts ==
    << [id |-> "p1", categoryId |-> "cat-beverages", minStock |-> 2],
       [id |-> "p2", categoryId |-> "cat-beverages", minStock |-> 0],
       [id |-> "p3", categoryId |-> "cat-snacks",    minStock |-> 1] >>

Categories == {"cat-beverages", "cat-snacks", "cat-dairy"}

initialTransactions == << >>

(***************************************************************************)
(* getProductStock: filter by product, then reduce from the left.          *)
(***************************************************************************)
RECURSIVE StockReduce(_, _, _)
StockReduce(productTransactions, i, stock) ==
    IF i > Len(productTransactions) THEN stock
    ELSE LET transaction == productTransactions[i]
         IN  StockReduce(productTransactions, i + 1,
                 IF transaction.type = "entry"
                 THEN stock + transaction.quantity
                 ELSE stock - transaction.quantity)

StockAddingExits(ledger, productId) ==
    LET productTransactions == SelectSeq(ledger, LAMBDA t : t.productId = productId)
        RECURSIVE Sum(_)
        Sum(i) == IF i = 0 THEN 0 ELSE Sum(i - 1) + productTransactions[i].quantity
    IN  Sum(Len(productTransactions))

getProductStock(ledger, productId) ==
    LET productTransactions == SelectSeq(ledger, LAMBDA t : t.productId = productId)
    IN  StockReduce(productTransactions, 1, 0)

(***************************************************************************)
(* addTransaction and the re-render.                                       *)
(***************************************************************************)
DraftsOf(prods, types, qtys, costs, dates) ==
    [productId : prods, type : types, quantity : qtys, unitCost : costs, date : dates]

\* what a caller may pass: addTransaction itself places no condition on quantity
AnyDrafts == DraftsOf(Products, Types, {-1, 0} \cup (1 .. MaxQty), {1}, {"2024-01-01"})
\* drafts that respect the data model (quantity > 0)
PositiveDrafts == DraftsOf(Products, Types, 1 .. MaxQty, {1}, {"2024-01-01"})

NewTransaction(draft, id) ==
    [id |-> id, productId |-> draft.productId, type |-> draft.type,
     quantity |-> draft.quantity, unitCost |-> draft.unitCost, date |-> draft.date]

NotEnoughStockOffByOne(currentStock, quantity) == currentStock + 1 < quantity

NotEnoughStockInclusive(currentStock, quantity) == currentStock <= quantity

\* line 667: if (currentStock < transaction.quantity) throw
NotEnoughStock(currentStock, quantity) == currentStock < quantity

addTransaction(draft) ==
    /\ nextId <= MaxCalls
    /\ nextId' = nextId + 1
    /\ UNCHANGED <<transactions, products, productsState>>
    /\ LET newTransaction == NewTransaction(draft, nextId)
       IN  IF /\ draft.type = "exit"
              /\ NotEnoughStock(getProductStock(transactions, draft.productId),
                                draft.quantity)
           THEN /\ result' = [op |-> "addTransaction", draft |-> draft,
                              error |-> "Not enough stock for this transaction"]
                /\ UNCHANGED transactionsState
           ELSE /\ transactionsState' = Append(transactions, newTransaction)
                /\ result' = [op |-> "addTransaction", draft |-> draft,
                              error |-> ""]

\* React renders the provider again after a state change: the closures of the
\* new render see the last value set
Render ==
    /\ transactions # transactionsState \/ products # productsState
    /\ transactions' = transactionsState
    /\ products' = productsState
    /\ UNCHANGED <<transactionsState, productsState, nextId, result>>

NoResult == [op |-> "none"]

Init ==
    /\ transactions = initialTransactions
    /\ transactionsState = initialTransactions
    /\ products = initialProducts
    /\ productsState = initialProducts
    /\ nextId = 1
    /\ result = NoResult

AddAny == \E draft \in AnyDrafts : addTransaction(draft)

AddPositive == \E draft \in PositiveDrafts : addTransaction(draft)

Next == AddAny \/ Render

Spec == Init /\ [][Next]_vars

NextPositive == AddPositive \/ Render

SpecPositive == Init /\ [][NextPositive]_vars

(***************************************************************************)
(* addProduct and deleteProduct, with the appends, on the catalog.         *)
(***************************************************************************)
\* the identifier uuidv4() gives a new product
ProductUuid(n) == "u" \o ToString(n)

addProduct(product) ==
    /\ nextId <= MaxCalls
    /\ nextId' = nextId + 1
    /\ LET newProduct == [id |-> ProductUuid(nextId),
                          categoryId |-> product.categoryId,
                          minStock |-> product.minStock]
       IN  productsState' = Append(products, newProduct)
    /\ result' = [op |-> "addProduct", error |-> ""]
    /\ UNCHANGED <<transactions, transactionsState, products>>

\* line 653: transactions.some((transaction) => transaction.productId === id)
HasTransactions(ledger, id) ==
    \E i \in 1 .. Len(ledger) : ledger[i].productId = id

deleteProduct(id) ==
    /\ IF HasTransactions(transactions, id)
       THEN /\ result' = [op |-> "deleteProduct", id |-> id,
                          error |-> "Cannot delete product that has transactions"]
            /\ UNCHANGED productsState
       ELSE /\ productsState' = SelectSeq(products, LAMBDA prod : prod.id # id)
            /\ result' = [op |-> "deleteProduct", id |-> id, error |-> ""]
    /\ UNCHANGED <<transactions, transactionsState, products, nextId>>

CatalogDrafts == DraftsOf(Products, Types, {1}, {1}, {"2024-01-01"})

ProductDrafts == {[categoryId |-> "cat-dairy", minStock |-> 0]}

AddToCatalog == \E product \in ProductDrafts : addProduct(product)

DeleteFromCatalog == \E i \in 1 .. Len(products) : deleteProduct(products[i].id)

AddToLedger == \E draft \in CatalogDrafts : addTransaction(draft)

NextCatalog == AddToCatalog \/ DeleteFromCatalog \/ AddToLedger \/ Render

SpecCatalog == Init /\ [][NextCatalog]_vars

(***************************************************************************)
(* Exact fractions for the quotients of the costing methods.               *)
(***************************************************************************)
RECURSIVE GCD(_, _)
GCD(a, b) == IF b = 0 THEN a ELSE GCD(b, a % b)

Abs(n) == IF n < 0 THEN -n ELSE n

\* num / den with den # 0, in lowest terms with a positive denominator
Frac(num, den) ==
    LET g == GCD(Abs(num), Abs(den))
        sgn == IF den < 0 THEN -1 ELSE 1
    IN  [num |-> sgn * (num \div g), den |-> sgn * (den \div g)]

FracOfInt(n) == [num |-> n, den |-> 1]
FracSub(x, y) == Frac(x.num * y.den - y.num * x.den, x.den * y.den)
FracMulInt(n, x) == Frac(n * x.num, x.den)
FracDivInt(x, n) == Frac(x.num, x.den * n)
FracLE(x, y) == x.num * y.den <= y.num * x.den

(***************************************************************************)
(* getProductTransactions: the transactions of a product whose date lies   *)
(* in [startDate, endDate].                                                *)
(***************************************************************************)
InRangeExclusiveEnd(t, productId, startDate, endDate) ==
    LET start == NewDate(startDate)
        end == NewDate(endDate)
        transactionDate == NewDate(t.date)
    IN  /\ t.productId = productId
        /\ DateGE(transactionDate, start)
        /\ DateLE(transactionDate, end) /\ transactionDate.time # end.time

\* lines 713-720: the predicate of the filter
InRange(t, productId, startDate, endDate) ==
    LET start == NewDate(startDate)
        end == NewDate(endDate)
        transactionDate == NewDate(t.date)
    IN  /\ t.productId = productId
        /\ DateGE(transactionDate, start)
        /\ DateLE(transactionDate, end)

getProductTransactions(ledger, productId, startDate, endDate) ==
    SelectSeq(ledger, LAMBDA t : InRange(t, productId, startDate, endDate))

(***************************************************************************)
(* calculateInventoryCost.  The call works on JavaScript objects and       *)
(* arrays: objs is the object store (objs[r] is the object with reference  *)
(* r), an array is a sequence of references.  The objects of the ledger are*)
(* objs[1 .. Len(ledger)]; filter and [...a] make new arrays of the same   *)
(* references, sort reorders the array it is called on, {...o, quantity}   *)
(* makes a new object.                                                     *)
(***************************************************************************)
Deref(objs, arr) == [i \in 1 .. Len(arr) |-> objs[arr[i]]]

RefsUpTo(n) == [i \in 1 .. n |-> i]

CompareSwapped(a, b, descending) ==
    IF descending THEN CompareAsc(a, b) ELSE CompareDesc(a, b)

Compare(a, b, descending) ==
    IF descending THEN CompareDesc(a, b) ELSE CompareAsc(a, b)

InsertSortedBeforeTies(objs, sorted, r, descending) ==
    LET later == {k \in 1 .. Len(sorted) :
                    Compare(objs[sorted[k]], objs[r], descending) >= 0}
        pos == IF later = {} THEN Len(sorted) + 1
               ELSE CHOOSE k \in later : \A j \in later : k <= j
    IN  SubSeq(sorted, 1, pos - 1) \o <<r>> \o SubSeq(sorted, pos, Len(sorted))

\* Array.prototype.sort is stable: r goes after every element that does not
\* compare greater than it
InsertSorted(objs, sorted, r, descending) ==
    LET later == {k \in 1 .. Len(sorted) :
                    Compare(objs[sorted[k]], objs[r], descending) > 0}
        pos == IF later = {} THEN Len(sorted) + 1
               ELSE CHOOSE k \in later : \A j \in later : k <= j
    IN  SubSeq(sorted, 1, pos - 1) \o <<r>> \o SubSeq(sorted, pos, Len(sorted))

RECURSIVE SortFrom(_, _, _, _, _)
SortFrom(objs, arr, i, sorted, descending) ==
    IF i > Len(arr) THEN sorted
    ELSE SortFrom(objs, arr, i + 1, InsertSorted(objs, sorted, arr[i], descending),
                  descending)

SortByDate(objs, arr, descending) == SortFrom(objs, arr, 1, << >>, descending)

UsePartialEntryDropsLot(objs, remainingEntries, remainingExitQuantity) ==
    [objs |-> objs, remainingEntries |-> Tail(remainingEntries)]

UsePartialEntryInPlace(objs, remainingEntries, remainingExitQuantity) ==
    [objs |-> [objs EXCEPT ![remainingEntries[1]].quantity = @ - remainingExitQuantity],
     remainingEntries |-> remainingEntries]

\* lines 761-764 and 798-801: remainingEntries[0] = {...entry, quantity: ...}
UsePartialEntry(objs, remainingEntries, remainingExitQuantity) ==
    LET entry == objs[remainingEntries[1]]
        copy == [entry EXCEPT !.quantity = @ - remainingExitQuantity]
    IN  [objs |-> Append(objs, copy),
         remainingEntries |-> <<Len(objs) + 1>> \o Tail(remainingEntries)]

\* lines 752-767 and 789-804: the while loop of one exit
RECURSIVE ConsumeExit(_, _, _)
ConsumeExit(objs, remainingEntries, remainingExitQuantity) ==
    IF remainingExitQuantity > 0 /\ Len(remainingEntries) > 0
    THEN LET entry == objs[remainingEntries[1]]
         IN  IF entry.quantity <= remainingExitQuantity
             THEN ConsumeExit(objs, Tail(remainingEntries),
                              remainingExitQuantity - entry.quantity)
             ELSE UsePartialEntry(objs, remainingEntries, remainingExitQuantity)
    ELSE [objs |-> objs, remainingEntries |-> remainingEntries]

\* lines 747-768 and 784-805: the for loop over the sorted exits
RECURSIVE ProcessExits(_, _, _, _)
ProcessExits(objs, remainingEntries, exits, i) ==
    IF i > Len(exits) THEN [objs |-> objs, remainingEntries |-> remainingEntries]
    ELSE LET after == ConsumeExit(objs, remainingEntries, objs[exits[i]].quantity)
         IN  ProcessExits(after.objs, after.remainingEntries, exits, i + 1)

RECURSIVE SumQuantity(_, _)
SumQuantity(objs, arr) ==
    IF arr = << >> THEN 0
    ELSE objs[arr[1]].quantity + SumQuantity(objs, Tail(arr))

RECURSIVE SumValue(_, _)
SumValue(objs, arr) ==
    IF arr = << >> THEN 0
    ELSE objs[arr[1]].quantity * objs[arr[1]].unitCost + SumValue(objs, Tail(arr))

AverageOf(totalCost, remainingStock) ==
    IF remainingStock > 0 THEN FracDivInt(totalCost, remainingStock) ELSE FracOfInt(0)

\* lines 738-773 (PEPS, descending = FALSE) and 775-810 (UEPS, descending = TRUE)
DrainLots(objs, entries, exits, descending) ==
    LET entriesQueue == SortByDate(objs, entries, descending)
        sortedExits == SortByDate(objs, exits, FALSE)
        after == ProcessExits(objs, entriesQueue, sortedExits, 1)
        remainingStock == SumQuantity(after.objs, after.remainingEntries)
        totalCost == FracOfInt(SumValue(after.objs, after.remainingEntries))
    IN  [objs |-> after.objs, entries |-> entries, exits |-> sortedExits,
         remainingEntries |-> after.remainingEntries,
         remainingStock |-> remainingStock, totalCost |-> totalCost,
         averageCost |-> AverageOf(totalCost, remainingStock)]

RECURSIVE ApplyExitsKeepingValue(_, _, _, _, _)
ApplyExitsKeepingValue(objs, exits, i, totalUnits, totalValue) ==
    IF i > Len(exits) THEN [totalUnits |-> totalUnits, totalValue |-> totalValue]
    ELSE IF totalUnits > 0
         THEN ApplyExitsKeepingValue(objs, exits, i + 1,
                                     totalUnits - objs[exits[i]].quantity, totalValue)
         ELSE ApplyExitsKeepingValue(objs, exits, i + 1, totalUnits, totalValue)

\* lines 824-830: the exits of the weighted method, in the order given
RECURSIVE ApplyExits(_, _, _, _, _)
ApplyExits(objs, exits, i, totalUnits, totalValue) ==
    IF i > Len(exits) THEN [totalUnits |-> totalUnits, totalValue |-> totalValue]
    ELSE LET exit == objs[exits[i]]
         IN  IF totalUnits > 0
             THEN LET currentAverageCost == FracDivInt(totalValue, totalUnits)
                  IN  ApplyExits(objs, exits, i + 1, totalUnits - exit.quantity,
                          FracSub(totalValue,
                                  FracMulInt(exit.quantity, currentAverageCost)))
             ELSE ApplyExits(objs, exits, i + 1, totalUnits, totalValue)

\* lines 812-835
Weighted(objs, entries, exits) ==
    LET totals == ApplyExits(objs, exits, 1, SumQuantity(objs, entries),
                             FracOfInt(SumValue(objs, entries)))
    IN  [objs |-> objs, entries |-> entries, exits |-> exits,
         remainingEntries |-> << >>,
         remainingStock |-> totals.totalUnits, totalCost |-> totals.totalValue,
         averageCost |-> AverageOf(totals.totalValue, totals.totalUnits)]

\* the whole call on the object store of the ledger
CalculateOnObjects(ledger, productId, method, startDate, endDate) ==
    LET objs == ledger
        filteredTransactions ==
            SelectSeq(RefsUpTo(Len(ledger)),
                      LAMBDA r : InRange(objs[r], productId, startDate, endDate))
        entries == SelectSeq(filteredTransactions, LAMBDA r : objs[r].type = "entry")
        exits == SelectSeq(filteredTransactions, LAMBDA r : objs[r].type = "exit")
    IN  CASE method = "PEPS" -> DrainLots(objs, entries, exits, FALSE)
          [] method = "UEPS" -> DrainLots(objs, entries, exits, TRUE)
          [] method = "weighted" -> Weighted(objs, entries, exits)

\* the breakdown the call returns
calculateInventoryCost(ledger, productId, method, startDate, endDate) ==
    LET run == CalculateOnObjects(ledger, productId, method, startDate, endDate)
    IN  [entries |-> Deref(run.objs, run.entries),
         exits |-> Deref(run.objs, run.exits),
         remainingStock |-> run.remainingStock,
         totalCost |-> run.totalCost,
         averageCost |-> run.averageCost]

\* the array `transactions` after the call: the call never assigns, sorts or
\* splices that array, so it holds the same references, to the objects as the
\* call left them
LedgerAfterCalculate(ledger, productId, method, startDate, endDate) ==
    LET run == CalculateOnObjects(ledger, productId, method, startDate, endDate)
    IN  SubSeq(run.objs, 1, Len(ledger))

(***************************************************************************)
(* Stock reports over the catalog.                                         *)
(***************************************************************************)
getCategoryStock(ledger, catalog, categoryId) ==
    LET categoryProducts == SelectSeq(catalog, LAMBDA p : p.categoryId = categoryId)
    IN  [i \in 1 .. Len(categoryProducts) |->
            [productId |-> categoryProducts[i].id,
             stock |-> getProductStock(ledger, categoryProducts[i].id)]]

getLowStockProducts(ledger, catalog) ==
    SelectSeq(catalog, LAMBDA product :
        getProductStock(ledger, product.id) <= product.minStock)

(***************************************************************************)
(* The queries as operations of the provider, on a ledger drawn from a     *)
(* bounded set (what localStorage held, or what earlier appends built).    *)
(* In these specifications the render is current: transactions and         *)
(* transactionsState are the same array.                                   *)
(***************************************************************************)
InitLedger(drafts) ==
    \E n \in 0 .. MaxLen :
        \E f \in [1 .. n -> drafts] :
            /\ transactions = [i \in 1 .. n |-> NewTransaction(f[i], i)]
            /\ transactionsState = transactions
            /\ products = initialProducts
            /\ productsState = initialProducts
            /\ nextId = n + 1
            /\ result = NoResult

GetProductStock(productId) ==
    /\ result' = [op |-> "getProductStock", productId |-> productId,
                  value |-> getProductStock(transactions, productId)]
    /\ UNCHANGED <<transactions, transactionsState, products, productsState, nextId>>

GetCategoryStock(categoryId) ==
    /\ result' = [op |-> "getCategoryStock", categoryId |-> categoryId,
                  value |-> getCategoryStock(transactions, products, categoryId)]
    /\ UNCHANGED <<transactions, transactionsState, products, productsState, nextId>>

GetLowStockProducts ==
    /\ result' = [op |-> "getLowStockProducts",
                  value |-> getLowStockProducts(transactions, products)]
    /\ UNCHANGED <<transactions, transactionsState, products, productsState, nextId>>

GetProductTransactions(productId, startDate, endDate) ==
    /\ result' = [op |-> "getProductTransactions", productId |-> productId,
                  startDate |-> startDate, endDate |-> endDate,
                  value |-> getProductTransactions(transactions, productId,
                                                   startDate, endDate)]
    /\ UNCHANGED <<transactions, transactionsState, products, productsState, nextId>>

CalculateInventoryCost(productId, method, startDate, endDate) ==
    /\ result' = [op |-> "calculateInventoryCost", productId |-> productId,
                  method |-> method, startDate |-> startDate, endDate |-> endDate,
                  value |-> calculateInventoryCost(transactions, productId, method,
                                                   startDate, endDate)]
    /\ transactions' = LedgerAfterCalculate(transactions, productId, method,
                                            startDate, endDate)
    \* the array React holds is this one, or this one and a transaction
    \* appended since the render: it shares the objects of the ledger
    /\ transactionsState' = transactions' \o SubSeq(transactionsState,
                                 Len(transactions) + 1, Len(transactionsState))
    /\ UNCHANGED <<products, productsState, nextId>>

\* getProductStock and the catalog reports
StockDrafts == DraftsOf(Products, Types, 1 .. MaxQty, {1}, {"2024-01-01"})

InitStock == InitLedger(StockDrafts)

StockOfProduct == \E p \in ProductIds : GetProductStock(p)

StockOfCategory == \E c \in Categories : GetCategoryStock(c)

NextStock == StockOfProduct \/ StockOfCategory \/ GetLowStockProducts

SpecStock == InitStock /\ [][NextStock]_vars

\* getProductTransactions
FilterDrafts == DraftsOf(Products, {"entry"}, {1}, {1}, DateStrings)

InitFilter == InitLedger(FilterDrafts)

NextFilter ==
    \E p \in Products : \E s \in DateStrings : \E e \in DateStrings :
        GetProductTransactions(p, s, e)

SpecFilter == InitFilter /\ [][NextFilter]_vars

\* calculateInventoryCost
CostDates == {"2024-01-01", "2024-01-02"}

\* the whole range of CostDates, and its last day only
QueryRanges == { <<"2024-01-01", "2024-01-02">>, <<"2024-01-02", "2024-01-02">> }

\* the smallest and the largest quantity and unit cost
CostDrafts == DraftsOf({"p1"}, Types, {1, MaxQty}, {1, MaxCost}, CostDates)

InitCost == InitLedger(CostDrafts)

\* one valuation per behaviour: the inputs are drawn, then the call is made
NextCost ==
    \E m \in Methods : \E range \in QueryRanges :
        result = NoResult /\ CalculateInventoryCost("p1", m, range[1], range[2])

SpecCost == InitCost /\ [][NextCost]_vars

\* all five queries
QueryDrafts == DraftsOf({"p1"}, Types, {1, MaxQty}, {1}, CostDates)

InitQuery == InitLedger(QueryDrafts)

Transactions ==
    \E p \in Products : \E range \in QueryRanges :
        GetProductTransactions(p, range[1], range[2])

InventoryCost ==
    \E m \in Methods : \E range \in QueryRanges :
        CalculateInventoryCost("p1", m, range[1], range[2])

NextQuery ==
    \/ StockOfProduct
    \/ StockOfCategory
    \/ GetLowStockProducts
    \/ Transactions
    \/ InventoryCost

SpecQuery == InitQuery /\ [][NextQuery]_vars

\* appends with dates of the caller's choosing, and valuations over the range
\* that holds them all
ValuationDrafts == DraftsOf({"p1"}, Types, {1, MaxQty}, {1}, CostDates)

AddDated == \E draft \in ValuationDrafts : addTransaction(draft)

ValueWholeRange ==
    \E m \in Methods : CalculateInventoryCost("p1", m, "2024-01-01", "2024-01-02")

NextValuation == AddDated \/ Render \/ ValueWholeRange

SpecValuation == Init /\ [][NextValuation]_vars

(***************************************************************************)
(* Claims about the append path.                                           *)
(***************************************************************************)
IsPrefix(s, t) == Len(s) <= Len(t) /\ SubSeq(t, 1, Len(s)) = s

\* C1: from an empty ledger, after any sequence and interleaving of
\* addTransaction calls with quantity > 0, the stock of every product is
\* non-negative, in the ledger the render shows and in the one React holds.
C1_NonNegativeStock ==
    \A p \in Products :
        /\ getProductStock(transactions, p) >= 0
        /\ getProductStock(transactionsState, p) >= 0

\* an exit has taken a product's stock down to 0 and a further exit of that
\* product has just been rejected
C1_Witness ==
    /\ result.op = "addTransaction"
    /\ result.error # ""
    /\ getProductStock(transactionsState, result.draft.productId) = 0
    /\ \E i \in 1 .. Len(transactionsState) :
          /\ transactionsState[i].type = "exit"
          /\ transactionsState[i].productId = result.draft.productId

\* C2: a call of addTransaction accepts an exit exactly when
\* getProductStock(productId) >= quantity, and always accepts an entry; an
\* accepted draft is appended at the end of the ledger the call reads
\* (transactions); a rejected one signals the error and leaves the ledger as
\* it was.
C2_AcceptExactlyWhenStockSuffices ==
    [][ nextId' # nextId =>
          LET draft == result'.draft
              accept == \/ draft.type = "entry"
                        \/ getProductStock(transactions, draft.productId)
                               >= draft.quantity
          IN  /\ result'.op = "addTransaction"
              /\ accept =>
                    /\ result'.error = ""
                    /\ transactionsState'
                         = Append(transactions, NewTransaction(draft, nextId))
              /\ ~accept =>
                    /\ result'.error = "Not enough stock for this transaction"
                    /\ transactionsState' = transactionsState
                    /\ transactions' = transactions ]_vars

\* an exit for the whole current stock has just been accepted
C2_Witness ==
    /\ result.op = "addTransaction"
    /\ result.error = ""
    /\ result.draft.type = "exit"
    /\ result.draft.quantity > 0
    /\ getProductStock(transactions, result.draft.productId) = result.draft.quantity
    /\ Len(transactionsState) = Len(transactions) + 1
    /\ getProductStock(transactionsState, result.draft.productId) = 0

\* C3: the ledger is append-only: the ledger of every state is a prefix of
\* the ledger of the next, so no accepted transaction is dropped, overwritten
\* or altered, also when two calls are made against the same render.
C3_AppendOnly == [][IsPrefix(transactionsState, transactionsState')]_vars

\* C10: every transaction in the ledger has quantity > 0.
C10_PositiveQuantities ==
    \A i \in 1 .. Len(transactionsState) : transactionsState[i].quantity > 0

(***************************************************************************)
(* Claims about the queries.                                               *)
(***************************************************************************)
\* the sum of the quantities of the transactions at the given positions
RECURSIVE SumOver(_, _)
SumOver(ledger, indices) ==
    IF indices = {} THEN 0
    ELSE LET i == CHOOSE k \in indices : TRUE
         IN  ledger[i].quantity + SumOver(ledger, indices \ {i})

Indices(ledger, Pred(_)) == {i \in 1 .. Len(ledger) : Pred(ledger[i])}

\* sum of the entries' quantities minus sum of the exits' quantities
SignedSum(ledger, productId) ==
    SumOver(ledger, Indices(ledger, LAMBDA t : t.productId = productId /\ t.type = "entry"))
    - SumOver(ledger, Indices(ledger, LAMBDA t : t.productId = productId /\ t.type = "exit"))

Permuted(ledger, perm) == [i \in 1 .. Len(ledger) |-> ledger[perm[i]]]

\* C4: getProductStock is the sum of the product's entries minus the sum of
\* its exits; it is the same for every permutation of the ledger, ignores the
\* transactions of other products and is 0 for a product without transactions.
C4_StockIsSignedSum ==
    result.op = "getProductStock" =>
        LET p == result.productId
        IN  /\ result.value = SignedSum(transactions, p)
            /\ \A perm \in Permutations(1 .. Len(transactions)) :
                   getProductStock(Permuted(transactions, perm), p) = result.value
            /\ getProductStock(SelectSeq(transactions, LAMBDA t : t.productId = p), p)
                   = result.value
            /\ (\A i \in 1 .. Len(transactions) : transactions[i].productId # p)
                   => result.value = 0

\* the stock of a product with an entry and an exit, in a ledger that also
\* holds another product, has been computed
C4_Witness ==
    /\ result.op = "getProductStock"
    /\ \E i, j, k \in 1 .. Len(transactions) :
          /\ transactions[i].productId = result.productId
          /\ transactions[i].type = "entry"
          /\ transactions[j].productId = result.productId
          /\ transactions[j].type = "exit"
          /\ transactions[k].productId # result.productId
    /\ result.value # 0

\* the filtered set of the valuation that result holds
FilteredOf(r) == getProductTransactions(transactions, r.productId, r.startDate, r.endDate)

EntriesOf(f) == SelectSeq(f, LAMBDA t : t.type = "entry")
ExitsOf(f) == SelectSeq(f, LAMBDA t : t.type = "exit")
TimeOf(t) == NewDate(t.date).time

\* for every exit, the exits dated up to it do not exceed the entries dated up to it
ExitsCovered(f) ==
    \A x \in 1 .. Len(f) :
        f[x].type = "exit" =>
            SumOver(f, Indices(f, LAMBDA t : t.type = "exit" /\ TimeOf(t) <= TimeOf(f[x])))
            <= SumOver(f, Indices(f, LAMBDA t : t.type = "entry" /\ TimeOf(t) <= TimeOf(f[x])))

CostBy(r, method) ==
    calculateInventoryCost(transactions, r.productId, method, r.startDate, r.endDate)

\* C5: when, in date order, the exits never exceed the entries made so far,
\* PEPS, UEPS and weighted return the same remainingStock.
C5_Conservation ==
    result.op = "calculateInventoryCost" =>
        (ExitsCovered(FilteredOf(result)) =>
            /\ CostBy(result, "PEPS").remainingStock = CostBy(result, "UEPS").remainingStock
            /\ CostBy(result, "PEPS").remainingStock
                   = CostBy(result, "weighted").remainingStock
            /\ result.value.remainingStock = CostBy(result, "PEPS").remainingStock)

\* a valuation of a covered set in which an exit has taken part of the stock
C5_Witness ==
    /\ result.op = "calculateInventoryCost"
    /\ ExitsCovered(FilteredOf(result))
    /\ Len(result.value.exits) >= 1
    /\ Len(result.value.entries) >= 2
    /\ result.value.remainingStock > 0

NonDecreasingCosts(f) ==
    \A a, b \in 1 .. Len(f) :
        (f[a].type = "entry" /\ f[b].type = "entry" /\ TimeOf(f[a]) < TimeOf(f[b]))
            => f[a].unitCost <= f[b].unitCost

NonIncreasingCosts(f) ==
    \A a, b \in 1 .. Len(f) :
        (f[a].type = "entry" /\ f[b].type = "entry" /\ TimeOf(f[a]) < TimeOf(f[b]))
            => f[a].unitCost >= f[b].unitCost

\* C6: PEPS totalCost >= UEPS totalCost when the entries' unit costs do not
\* decrease with the date, and PEPS totalCost <= UEPS totalCost when they do
\* not increase, for every set of exits.
C6_FifoLifoMonotone ==
    result.op = "calculateInventoryCost" =>
        LET f == FilteredOf(result)
            peps == CostBy(result, "PEPS").totalCost
            ueps == CostBy(result, "UEPS").totalCost
        IN  /\ NonDecreasingCosts(f) => FracLE(ueps, peps)
            /\ NonIncreasingCosts(f) => FracLE(peps, ueps)

\* rising costs, an exit, and PEPS strictly dearer than UEPS
C6_Witness ==
    /\ result.op = "calculateInventoryCost"
    /\ NonDecreasingCosts(FilteredOf(result))
    /\ Len(result.value.exits) >= 1
    /\ ~FracLE(CostBy(result, "PEPS").totalCost, CostBy(result, "UEPS").totalCost)

MinUnitCost(entries) ==
    CHOOSE c \in {entries[i].unitCost : i \in 1 .. Len(entries)} :
        \A i \in 1 .. Len(entries) : c <= entries[i].unitCost

MaxUnitCost(entries) ==
    CHOOSE c \in {entries[i].unitCost : i \in 1 .. Len(entries)} :
        \A i \in 1 .. Len(entries) : c >= entries[i].unitCost

AverageWithinExtremes(r) ==
    /\ FracLE(FracOfInt(MinUnitCost(r.value.entries)), r.value.averageCost)
    /\ FracLE(r.value.averageCost, FracOfInt(MaxUnitCost(r.value.entries)))

\* C7 as stated: the averageCost of the weighted method is never above the
\* maximum nor below the minimum unit cost among the filtered entries.
C7_AverageWithinExtremes ==
    (/\ result.op = "calculateInventoryCost"
     /\ result.method = "weighted"
     /\ Len(result.value.entries) > 0)
        => AverageWithinExtremes(result)

\* C7 amended: the bound holds whenever the returned remainingStock is > 0;
\* when it is not, averageCost is 0.
C7_AverageWithinExtremesWhenStockLeft ==
    (/\ result.op = "calculateInventoryCost"
     /\ result.method = "weighted"
     /\ Len(result.value.entries) > 0)
        => IF result.value.remainingStock > 0
           THEN AverageWithinExtremes(result)
           ELSE result.value.averageCost = FracOfInt(0)

\* a weighted valuation with entries of different cost, an exit and stock left
C7_Witness ==
    /\ result.op = "calculateInventoryCost"
    /\ result.method = "weighted"
    /\ Len(result.value.exits) >= 1
    /\ result.value.remainingStock > 0
    /\ Len(result.value.entries) >= 2
    /\ MinUnitCost(result.value.entries) < MaxUnitCost(result.value.entries)

Matches(t, r) ==
    /\ t.productId = r.productId
    /\ r.startDate \in ValidDates /\ r.endDate \in ValidDates /\ t.date \in ValidDates
    /\ TimeOf([date |-> r.startDate]) <= TimeOf(t)
    /\ TimeOf(t) <= TimeOf([date |-> r.endDate])

\* C8: getProductTransactions returns exactly the transactions of the product
\* dated within [startDate, endDate], bounds included, in ledger order, and
\* the empty sequence when nothing matches, as when startDate > endDate.
C8_FilterExact ==
    result.op = "getProductTransactions" =>
        LET v == result.value
        IN  /\ {v[i].id : i \in 1 .. Len(v)}
                 = {transactions[i].id : i \in Indices(transactions,
                                                      LAMBDA t : Matches(t, result))}
            /\ \A i \in 1 .. Len(v) : v[i] = transactions[v[i].id]
            /\ \A i \in 1 .. Len(v) - 1 : v[i].id < v[i + 1].id
            /\ (/\ result.startDate \in ValidDates /\ result.endDate \in ValidDates
                /\ NewDate(result.startDate).time > NewDate(result.endDate).time)
                   => v = << >>

\* a filter that kept transactions dated on both bounds and left others out
C8_Witness ==
    /\ result.op = "getProductTransactions"
    /\ result.startDate # result.endDate
    /\ \E i, j \in 1 .. Len(result.value) :
          /\ result.value[i].date = result.startDate
          /\ result.value[j].date = result.endDate
    /\ \E k \in 1 .. Len(transactions) :
          /\ transactions[k].productId = result.productId
          /\ ~Matches(transactions[k], result)

\* the same call made again, on the ledger as the first call left it
Requery(r, ledger, catalog) ==
    CASE r.op = "getProductStock" -> getProductStock(ledger, r.productId)
      [] r.op = "getCategoryStock" -> getCategoryStock(ledger, catalog, r.categoryId)
      [] r.op = "getLowStockProducts" -> getLowStockProducts(ledger, catalog)
      [] r.op = "getProductTransactions" ->
            getProductTransactions(ledger, r.productId, r.startDate, r.endDate)
      [] r.op = "calculateInventoryCost" ->
            calculateInventoryCost(ledger, r.productId, r.method, r.startDate, r.endDate)

\* C9: no query changes the ledger, neither the order of its transactions
\* nor any transaction's fields, so the same call made again returns the same
\* result.
C9_QueriesArePure ==
    [][ /\ transactions' = transactions
        /\ transactionsState' = transactionsState
        /\ Requery(result', transactions', products') = result'.value ]_vars

\* a PEPS or UEPS valuation whose exits were reordered by the sort and whose
\* first exit took part of a lot
C9_Witness ==
    /\ result.op = "calculateInventoryCost"
    /\ result.method \in {"PEPS", "UEPS"}
    /\ result.value.exits # ExitsOf(FilteredOf(result))
    /\ Len(result.value.entries) = 1
    /\ result.value.entries[1].quantity > result.value.exits[1].quantity

(***************************************************************************)
(* Claims about the costing methods, one method at a time.                 *)
(***************************************************************************)
\* C11: in the weighted method no exit drives the totals negative: with
\* positive quantities and non-negative unit costs the result has
\* remainingStock >= 0 and totalCost >= 0.
C11_WeightedNeverNegative ==
    (result.op = "calculateInventoryCost" /\ result.method = "weighted")
        => /\ result.value.remainingStock >= 0
           /\ FracLE(FracOfInt(0), result.value.totalCost)

\* the run of the valuation that result holds, with the lots it left
RunOf(r) ==
    CalculateOnObjects(transactions, r.productId, r.method, r.startDate, r.endDate)

LotsLeft(r) == LET run == RunOf(r) IN Deref(run.objs, run.remainingEntries)

\* the entries in the costing order: date ascending, then insertion order
InCostingOrder(entries) ==
    LET n == Len(entries)
        perm == CHOOSE q \in Permutations(1 .. n) :
                    \A i, j \in 1 .. n :
                        i < j => \/ TimeOf(entries[q[i]]) < TimeOf(entries[q[j]])
                                 \/ /\ TimeOf(entries[q[i]]) = TimeOf(entries[q[j]])
                                    /\ entries[q[i]].id < entries[q[j]].id
    IN  [i \in 1 .. n |-> entries[perm[i]]]

\* the lots that hold the last units of a queue
RECURSIVE NewestUnits(_, _)
NewestUnits(queue, units) ==
    IF units <= 0 \/ queue = << >> THEN << >>
    ELSE LET last == queue[Len(queue)]
             front == SubSeq(queue, 1, Len(queue) - 1)
         IN  IF last.quantity <= units
             THEN Append(NewestUnits(front, units - last.quantity), last)
             ELSE << [last EXCEPT !.quantity = units] >>

RECURSIVE ValueOfLots(_)
ValueOfLots(lots) ==
    IF lots = << >> THEN 0
    ELSE lots[1].quantity * lots[1].unitCost + ValueOfLots(Tail(lots))

AllIndices(f) == 1 .. Len(f)

\* C12: PEPS takes the exits from the front of the date-ascending queue (ties
\* in original order) and drops what an oversold exit cannot take:
\* remainingStock = max(0, entries - exits), the lots left are the newest
\* remainingStock units of the queue, totalCost is their value and
\* averageCost = totalCost / remainingStock, or 0 without stock.
C12_PepsDrain ==
    (result.op = "calculateInventoryCost" /\ result.method = "PEPS") =>
        LET f == FilteredOf(result)
            balance == SumOver(EntriesOf(f), AllIndices(EntriesOf(f)))
                       - SumOver(ExitsOf(f), AllIndices(ExitsOf(f)))
            stock == IF balance > 0 THEN balance ELSE 0
            lots == NewestUnits(InCostingOrder(EntriesOf(f)), stock)
        IN  /\ result.value.remainingStock = stock
            /\ LotsLeft(result) = lots
            /\ result.value.totalCost = FracOfInt(ValueOfLots(lots))
            /\ result.value.averageCost
                 = IF stock > 0 THEN Frac(ValueOfLots(lots), stock) ELSE FracOfInt(0)

\* a PEPS valuation of equal-dated entries of different cost in which an
\* exit took part of a lot
C12_Witness ==
    /\ result.op = "calculateInventoryCost"
    /\ result.method = "PEPS"
    /\ Len(result.value.exits) >= 1
    /\ \E i, j \in 1 .. Len(result.value.entries) :
          /\ i # j
          /\ result.value.entries[i].date = result.value.entries[j].date
          /\ result.value.entries[i].unitCost # result.value.entries[j].unitCost
    /\ \E k \in 1 .. Len(LotsLeft(result)) :
          LotsLeft(result)[k].quantity < transactions[LotsLeft(result)[k].id].quantity

\* what is left of the entry with the given id after the run
LeftOf(r, id) ==
    LET lots == LotsLeft(r)
        at == {k \in 1 .. Len(lots) : lots[k].id = id}
    IN  IF at = {} THEN 0 ELSE lots[CHOOSE k \in at : TRUE].quantity

\* C13: UEPS takes the newest lot of the costing order (date ascending, then
\* insertion order) first: no entry has been consumed while an entry later in
\* that order still has quantity left, also among entries of the same date.
C13_UepsNewestFirst ==
    (result.op = "calculateInventoryCost" /\ result.method = "UEPS") =>
        LET queue == InCostingOrder(EntriesOf(FilteredOf(result)))
        IN  \A i, j \in 1 .. Len(queue) :
                (i < j /\ LeftOf(result, queue[i].id) < queue[i].quantity)
                    => LeftOf(result, queue[j].id) = 0

(***************************************************************************)
(* Claims about the catalog.                                               *)
(***************************************************************************)
IdsOf(catalog) == {catalog[i].id : i \in 1 .. Len(catalog)}

\* C14: after any sequence or interleaving of addProduct, deleteProduct and
\* addTransaction calls, a product that has a transaction in the ledger is
\* still in the catalog (stated of the rendered ledger and catalog, once
\* React has rendered the last state set).
C14_ProductsWithTransactionsKept ==
    (transactions = transactionsState /\ products = productsState) =>
        \A id \in ProductIds :
            HasTransactions(transactions, id) => id \in IdsOf(products)

(***************************************************************************)
(* Valuation against stock.                                                *)
(***************************************************************************)
AgreesWithStock(ledger, productId) ==
    \A m \in Methods :
        calculateInventoryCost(ledger, productId, m, "2024-01-01", "2024-01-02")
            .remainingStock = getProductStock(ledger, productId)

\* C15: for a ledger built by accepted addTransaction calls with positive
\* quantities and a range that holds every transaction of the product, the
\* remainingStock of PEPS, UEPS and weighted equals getProductStock, whatever
\* the dates of the transactions: of the rendered ledger, which the queries
\* read, and of the ledger React holds.
C15_ValuationAgreesWithStock ==
    /\ AgreesWithStock(transactions, "p1")
    /\ AgreesWithStock(transactionsState, "p1")

\* a valuation of a ledger whose exit is dated before the entry that covers it
C15_Witness ==
    /\ result.op = "calculateInventoryCost"
    /\ transactions = transactionsState
    /\ result.value.remainingStock > 0
    /\ \E x \in 1 .. Len(transactions) :
          /\ transactions[x].type = "exit"
          /\ \A e \in 1 .. Len(transactions) :
                transactions[e].type = "entry"
                    => TimeOf(transactions[x]) < TimeOf(transactions[e])

====
